---- MODULE Spec2Model ----
(***************************************************************************)
(* Model of the speech-to-text service: the orchestrator STTService        *)
(* (stt_service/service.py), the audio session AudioCapture                *)
(* (stt_service/core/audio_capture.py), the hotkey trigger source          *)
(* (stt_service/input/hotkey.py), the recognition engines                  *)
(* (stt_service/core/engine.py) and the output handlers                    *)
(* (stt_service/output/keyboard.py).                                       *)
(*                                                                         *)
(* Threads of the program: the main thread (start/stop of the service),    *)
(* the hotkey listener context running STTService._on_trigger, and the     *)
(* capture threads spawned by AudioCapture.start_recording.  Every action  *)
(* below is one step of one of these threads and touches the shared        *)
(* attributes (_processing, _recording, _audio_data, ...) at most once,    *)
(* which is the granularity at which Python threads interleave.            *)
(***************************************************************************)
EXTENDS Integers, Sequences, FiniteSets, TLC

\* ---------------------------------------------------------------- bounds
NumTriggers == 2        \* trigger callbacks that may be in flight at once
MaxLoops == 1           \* capture threads of a session used on its own alive at once
MaxPresses == 2         \* hotkey presses of a round trip

\* audio.sample_rate values explored
Rates == {16000, 11025}
\* audio.max_duration values (tenths of a second) of the service: one chunk
ServiceDurations == {1}
\* audio.max_duration values (tenths of a second) of a session used on its own
CaptureDurations == {10}
\* audio.max_duration values (tenths of a second) of a round trip
RoundDurations == {30}

Main == 0
Triggers == 1..NumTriggers
\* a direct user of the AudioCapture API
Client == NumTriggers + 1
Actors == {Main, Client} \cup Triggers
LoopIds == 1..MaxLoops
\* the service is explored with one capture thread alive at a time: Thread.start()
\* of a new session waits for the previous capture thread to end
ServiceLoopIds == {1}

\* Texts a recognition backend may return: empty, whitespace only, real text.
Texts == {<<>>, <<" ">>, <<" ", "a">>}

VARIABLES
    sample_rate,    \* AudioCapture.sample_rate
    max_duration,   \* AudioCapture.max_duration, in tenths of a second
    available,      \* AudioCapture.available (sounddevice imported)
    engine_type,    \* the engine: "dummy" (DummyEngine) or "model" (any other backend) in
                    \* the service; its class, or "none" before create_engine, on its own
    sink_kind,      \* the output handler: "device", or a "recorder" that keeps what it gets,
                    \* in the service; its class ("keyboard", "clipboard", "composite") on its own
    sink,           \* the texts a recorder sink has received, in order
    presses,        \* hotkey presses delivered, where they are counted
    recording,      \* AudioCapture._recording
    audio_data,     \* AudioCapture._audio_data: the chunks, as their lengths
    record_thread,  \* AudioCapture._record_thread: 0 = attribute never set
    loops,          \* the capture threads: position in _record and samples_recorded
    capped,         \* the running session stopped itself at the cap, chunks not yet discarded
    running,        \* STTService._running
    processing,     \* STTService._processing (the Busy flag)
    ready,          \* engine.is_ready()
    active,         \* input_handler._active (callback registered)
    listeners,      \* hotkey listeners the trigger source has running
    pc,             \* position of the main thread and of each trigger callback
    buf,            \* length of the buffer the actor got from stop_recording() and
                    \* still has a use for, -1 = none
    exc,            \* exception state of the actor's current operation
    text,           \* the text a callback got from transcribe and hands to send_text
    quiet,          \* no trigger callback was executing when stop() unregistered the trigger
    escaped,        \* an exception left _on_trigger
    model_type,     \* the configured model.type handed to create_engine
    model,          \* the engine's self.model is not None
    audio,          \* shape of the array a transcribe call in progress was given
    inference,      \* the call of the inference model made by that transcribe call
    handlers,       \* the output handlers of an output object used on its own
    invoked,        \* the held handlers whose send_text a composite has called, in order
    os_calls,       \* the keystroke and clipboard operations attempted, in order
    result,         \* what send_text returned
    backend,        \* the trigger source used on its own: its library and self.available
    callback,       \* input_handler._callback of that trigger source, "none" = None
    called,         \* the callbacks that trigger source has invoked, in order
    DEFAULT_CONFIG, \* Config.DEFAULT_CONFIG: the nested dictionaries of the class attribute
    config,         \* self.config of each Config instance
    cli             \* position of run_service and STTService.run, "none" = not run from the CLI

vars == <<sample_rate, max_duration, available, engine_type, sink_kind, sink, presses, recording, audio_data,
          record_thread, loops, capped, running, processing, ready, active, listeners,
          pc, buf, exc, text, quiet, escaped,
          model_type, model, audio, inference, handlers, invoked, os_calls, result,
          backend, callback, called, DEFAULT_CONFIG, config, cli>>

audioVars == <<recording, audio_data, record_thread, loops, capped>>
cfgVars == <<sample_rate, max_duration, available, engine_type, sink_kind>>
svcVars == <<running, processing, ready, active, listeners>>
localVars == <<buf, exc>>
engVars == <<model_type, model, audio, inference>>
outVars == <<handlers, invoked, os_calls, result>>

\* no call of an inference model
NoInference == [samples |-> -1, outcome |-> "none"]

\* the engine and the output handler are not looked into: the service sees them
\* through `ready`, the text transcribe returns and the outcome of send_text
Opaque ==
    /\ model_type = "whisper"
    /\ model = FALSE
    /\ audio = <<>>
    /\ inference = NoInference
    /\ handlers = <<>>
    /\ invoked = <<>>
    /\ os_calls = <<>>
    /\ result = "none"

\* the configuration keys followed: one section of the defaults, one that is not
Sections == {"service", "custom"}
Keys == {"language", "audio_device"}
Values == {"en", "es", "default"}
\* the Config objects constructed
Instances == {"a", "b"}

\* DEFAULT_CONFIG as the class body writes it
DefaultConfig == [service |-> [language |-> "en", audio_device |-> "default"]]

LoopOff == [pc |-> "off", n |-> 0]

\* ------------------------------------------------------- pure functions

RECURSIVE SumSeq(_)
\* len(np.concatenate(chunks)): the total number of samples of the chunks
SumSeq(s) == IF s = <<>> THEN 0 ELSE Head(s) + SumSeq(Tail(s))

\* max_samples = int(self.sample_rate * self.max_duration)
MaxSamples == (sample_rate * max_duration) \div 10

\* stream.read(self.sample_rate // 10): the size of one chunk
ChunkSize == sample_rate \div 10

IsSpace(c) == c = " "

RECURSIVE LStrip(_)
LStrip(s) == IF s # <<>> /\ IsSpace(Head(s)) THEN LStrip(Tail(s)) ELSE s

RECURSIVE RStrip(_)
RStrip(s) == IF s # <<>> /\ IsSpace(s[Len(s)])
             THEN RStrip(SubSeq(s, 1, Len(s) - 1)) ELSE s

\* str.strip()
Strip(s) == RStrip(LStrip(s))

\* (the test without strip())
HasTextUnstripped(s) == s # <<>>

\* `if text and text.strip():` of _process_audio
HasText(s) == s # <<>> /\ Strip(s) # <<>>

\* service.language, the language hint handed to transcribe
Language == <<"e", "n">>

DummyPrefix == <<"[", "D", "u", "m", "m", "y", " ">> \o Language \o <<"]", ":", " ">>

ShortText == DummyPrefix \o
    <<"S", "h", "o", "r", "t", " ", "u", "t", "t", "e", "r", "a", "n", "c",
    "e">>

MediumText == DummyPrefix \o
    <<"M", "e", "d", "i", "u", "m", " ", "l", "e", "n", "g", "t", "h", " ",
    "s", "p", "e", "e", "c", "h", " ", "d", "e", "t", "e", "c", "t", "e",
    "d">>

LongText == DummyPrefix \o
    <<"L", "o", "n", "g", " ", "s", "p", "e", "e", "c", "h", " ", "d", "e",
    "t", "e", "c", "t", "e", "d", ",", " ", "d", "u", "r", "a", "t", "i", "o",
    "n", ":", " ">>

Digit(d) == <<"0", "1", "2", "3", "4", "5", "6", "7", "8", "9">>[d + 1]

\* the decimal digits of a natural number
RECURSIVE Digits(_)
Digits(k) == IF k < 10 THEN <<Digit(k)>> ELSE Append(Digits(k \div 10), Digit(k % 10))

\* `{duration:.1f}` for duration = n / 16000.0: the nearest tenth of a second
\* (a tenth is 1600 samples; lengths halfway between two tenths are not explored)
Duration1f(n) ==
    LET tenths == (n + 800) \div 1600
    IN  Digits(tenths \div 10) \o <<".", Digit(tenths % 10)>>

\* (the medium class ending at 2.0 s)
DummyTranscribeEarlyLong(n) ==
    IF n < 16000 THEN ShortText
    ELSE IF n < 32000 THEN MediumText
    ELSE LongText \o Duration1f(n) \o <<"s">>

\* DummyEngine.transcribe on a buffer of n samples: the answer is chosen on
\* duration = n / 16000.0, below 1.0, below 3.0, else
DummyTranscribe(n) ==
    IF n < 16000 THEN ShortText
    ELSE IF n < 48000 THEN MediumText
    ELSE LongText \o Duration1f(n) \o <<"s">>

\* ------------------------------------------------------------------ Init

Init ==
    /\ sample_rate = 16000
    /\ max_duration \in ServiceDurations
    /\ available \in BOOLEAN
    /\ engine_type = "model"
    /\ sink_kind = "device"
    /\ sink = <<>>
    /\ presses = 0
    /\ recording = FALSE
    /\ audio_data = <<>>
    /\ record_thread = 0
    /\ loops = [i \in ServiceLoopIds |-> LoopOff]
    /\ capped = FALSE
    /\ running = FALSE
    /\ processing = FALSE
    /\ ready = FALSE
    /\ active = FALSE
    /\ listeners = 0
    /\ pc = [a \in Actors |-> "idle"]
    /\ buf = [a \in Actors |-> -1]
    /\ exc = [a \in Actors |-> "none"]
    /\ text = [a \in Actors |-> <<>>]
    /\ quiet = FALSE
    /\ escaped = FALSE
    /\ Opaque
    /\ backend = [lib |-> "pynput", available |-> TRUE]
    /\ callback = "none"
    /\ called = <<>>
    /\ DEFAULT_CONFIG = DefaultConfig
    /\ config = [i \in Instances |-> [born |-> FALSE]]
    /\ cli = "none"

\* --------------------------------------------------------------- helpers

Goto(a, p) == pc' = [pc EXCEPT ![a] = p]

\* the actor's locals die when its operation returns
ResetLocals(a) ==
    /\ buf' = [buf EXCEPT ![a] = -1]
    /\ exc' = [exc EXCEPT ![a] = "none"]

\* (a handler that lets the exception through)
OnTriggerExceptionReraised == "raised"

\* `except Exception as e:` of _on_trigger: the exception is logged, not re-raised
OnTriggerException == "caught"

\* `except Exception as e:` of _process_audio: logged, not re-raised
OnProcessException == "caught"

\* (the flag cleared at the end of the try block instead of in `finally`)
BusyAtExitWithoutFinally(e) == e # "none"

\* `finally: self._processing = False`, whatever the exception state e
BusyAtExit(e) == FALSE

\* (the Busy test placed inside the try block, so that `finally` clears the flag)
BusyAfterDropCleared(p) == FALSE

\* `if self._processing: ... return`: a dropped trigger leaves the flag p as it is
BusyAfterDrop(p) == p

\* `if self.audio_capture.is_recording():` chooses stop_recording or start_recording
ToggleBranch(r) == IF r THEN "stop" ELSE "start"

\* (no test of the length of the harvested buffer)
HarvestBranchUnchecked(b) == "process"

\* `if len(audio_data) > 0: self._process_audio(audio_data)`
HarvestBranch(b) == IF b > 0 THEN "process" ELSE "finally"

\* (stop() without the force-stop of the session)
ForceStopNever(r) == FALSE

\* stop(): `if self.audio_capture and self.audio_capture.is_recording():`
ForceStop(r) == r

\* (start() without the test of the running flag)
StartGuardNever(r) == FALSE

\* start(): `if self._running: ... return`
StartGuard(r) == r

\* (start() that never loads the model)
NeedsLoadNever(r) == FALSE

\* start(): `if not self.engine.is_ready():` the model is loaded
NeedsLoad(r) == ~r

\* (the running flag set before the trigger source is started)
RunningOnRegisterFailureSet == TRUE

\* start(): `self._running = True` follows input_handler.start inside the try
\* block, so it is skipped when registering raises
RunningOnRegisterFailure == FALSE

\* (a send that is tried again, through the whole sub-cycle, when it returned false)
AfterSendRetry(outcome) == IF outcome = "false" THEN "transcribing" ELSE "finally"

\* _process_audio after `if self.output_handler.send_text(text):` whatever the
\* outcome, a failure is logged and counted and the method ends
AfterSend(outcome) == "finally"

\* (a join without timeout)
JoinWithoutTimeout == FALSE

\* `self._record_thread.join(timeout=1.0)` returns after one second at the latest,
\* whether or not the capture thread has ended
JoinMayTimeOut == TRUE

\* (an exception handler of the capture loop that leaves the flag as it is)
RecordingAfterLoopErrorKept(r) == r

\* _record: `except Exception as e: ... self._recording = False`
RecordingAfterLoopError(r) == FALSE

\* (stop_recording without the test of the flag)
NotRecordingNever(r) == FALSE

\* stop_recording: `if not self._recording:` the session is idle, the empty
\* array is returned
NotRecording(r) == ~r

\* where an actor continues when stop_recording() has returned b samples
AfterHarvest(a, b) ==
    CASE a = Main -> "stop_clear"
      [] a = Client -> "ret"
      [] OTHER -> IF HarvestBranch(b) = "process" THEN "transcribing" ELSE "finally"

\* where an actor continues when start_recording() has returned
AfterStart(a) == IF a = Client THEN "ret" ELSE "finally"

\* ------------------------------------------------- AudioCapture._record

\* `while self._recording and samples_recorded < max_samples:`
LoopCheck(i) ==
    /\ loops[i].pc = "check"
    /\ loops' = [loops EXCEPT ![i].pc =
                    IF recording /\ loops[i].n < MaxSamples THEN "read" ELSE "exit"]
    /\ UNCHANGED <<cfgVars, engVars, outVars, backend, callback, called, DEFAULT_CONFIG, config, cli, sink, presses, text, recording, audio_data, record_thread, capped,
                   svcVars, pc, localVars, quiet, escaped>>

\* one stream.read of a 100 ms chunk, appended to _audio_data
LoopRead(i) ==
    /\ loops[i].pc = "read"
    /\ audio_data' = Append(audio_data, ChunkSize)
    /\ loops' = [loops EXCEPT ![i] = [pc |-> "check", n |-> @.n + ChunkSize]]
    /\ UNCHANGED <<cfgVars, engVars, outVars, backend, callback, called, DEFAULT_CONFIG, config, cli, sink, presses, text, recording, record_thread, capped,
                   svcVars, pc, localVars, quiet, escaped>>

\* the device fails inside the loop: `except Exception: self._recording = False`
LoopFail(i) ==
    /\ loops[i].pc = "read"
    /\ recording' = RecordingAfterLoopError(recording)
    /\ loops' = [loops EXCEPT ![i] = LoopOff]
    /\ UNCHANGED <<cfgVars, engVars, outVars, backend, callback, called, DEFAULT_CONFIG, config, cli, sink, presses, text, audio_data, record_thread, capped,
                   svcVars, pc, localVars, quiet, escaped>>

\* `if samples_recorded >= max_samples: self._recording = False`, thread ends
LoopExit(i) ==
    /\ loops[i].pc = "exit"
    /\ IF loops[i].n >= MaxSamples
       THEN /\ recording' = FALSE
            /\ capped' = (capped \/ recording)
       ELSE UNCHANGED <<recording, capped>>
    /\ loops' = [loops EXCEPT ![i] = LoopOff]
    /\ UNCHANGED <<cfgVars, engVars, outVars, backend, callback, called, DEFAULT_CONFIG, config, cli, sink, presses, text, audio_data, record_thread,
                   svcVars, pc, localVars, quiet, escaped>>

\* ----------------------------------------- AudioCapture.stop_recording

\* an exception raised to actor a: _on_trigger catches it, stop() and a direct
\* caller of the session get it
Raise(a) ==
    CASE a = Main ->
            /\ Goto(a, "ret")
            /\ exc' = [exc EXCEPT ![a] = "raised"]
            /\ quiet' = FALSE
            /\ UNCHANGED buf
      [] a = Client ->
            /\ Goto(a, "ret")
            /\ exc' = [exc EXCEPT ![a] = "raised"]
            /\ UNCHANGED <<buf, quiet>>
      [] OTHER ->
            /\ Goto(a, "finally")
            /\ exc' = [exc EXCEPT ![a] = OnTriggerException]
            /\ UNCHANGED <<buf, quiet>>

\* `if not self._recording: return np.array([])`
StopRecCheck(a) ==
    /\ pc[a] = "sr_check"
    /\ IF NotRecording(recording)
       THEN /\ buf' = [buf EXCEPT ![a] = 0]
            /\ Goto(a, AfterHarvest(a, 0))
       ELSE /\ Goto(a, "sr_clear")
            /\ UNCHANGED buf
    /\ UNCHANGED <<cfgVars, engVars, outVars, backend, callback, called, DEFAULT_CONFIG, config, cli, sink, presses, text, audioVars, svcVars, exc, quiet, escaped>>

\* `self._recording = False`
StopRecClear(a) ==
    /\ pc[a] = "sr_clear"
    /\ recording' = FALSE
    /\ Goto(a, "sr_join")
    /\ UNCHANGED <<cfgVars, engVars, outVars, backend, callback, called, DEFAULT_CONFIG, config, cli, sink, presses, text, audio_data, record_thread, loops, capped,
                   svcVars, localVars, quiet, escaped>>

\* `self._record_thread.join(timeout=1.0)` returns because the thread has ended or
\* because the wait timed out, then `np.concatenate(self._audio_data)` (or the empty
\* array) is returned; _record_thread does not exist before the first
\* start_recording has reached Thread(...)
StopRecJoin(a) ==
    /\ pc[a] = "sr_join"
    /\ IF record_thread = 0
       THEN Raise(a)
       ELSE /\ JoinMayTimeOut \/ loops[record_thread].pc = "off"
            /\ buf' = [buf EXCEPT ![a] = SumSeq(audio_data)]
            /\ Goto(a, AfterHarvest(a, SumSeq(audio_data)))
            /\ UNCHANGED <<exc, quiet>>
    /\ UNCHANGED <<cfgVars, engVars, outVars, backend, callback, called, DEFAULT_CONFIG, config, cli, sink, presses, text, audioVars, svcVars, escaped>>

\* ---------------------------------------- AudioCapture.start_recording

\* `if not self.available: raise`, `if self._recording: return`
StartRecCheck(t) ==
    /\ pc[t] = "st_check"
    /\ IF ~available
       THEN Raise(t)
       ELSE /\ Goto(t, IF recording THEN AfterStart(t) ELSE "st_set")
            /\ UNCHANGED <<localVars, quiet>>
    /\ UNCHANGED <<cfgVars, engVars, outVars, backend, callback, called, DEFAULT_CONFIG, config, cli, sink, presses, text, audioVars, svcVars, escaped>>

\* `self._recording = True`
StartRecSet(t) ==
    /\ pc[t] = "st_set"
    /\ recording' = TRUE
    /\ Goto(t, "st_clear")
    /\ UNCHANGED <<cfgVars, engVars, outVars, backend, callback, called, DEFAULT_CONFIG, config, cli, sink, presses, text, audio_data, record_thread, loops, capped,
                   svcVars, localVars, quiet, escaped>>

\* `self._audio_data = []`
StartRecClear(t) ==
    /\ pc[t] = "st_clear"
    /\ audio_data' = <<>>
    /\ capped' = FALSE
    /\ Goto(t, "st_spawn")
    /\ UNCHANGED <<cfgVars, engVars, outVars, backend, callback, called, DEFAULT_CONFIG, config, cli, sink, presses, text, recording, record_thread, loops,
                   svcVars, localVars, quiet, escaped>>

\* `self._record_thread = threading.Thread(target=self._record)`, `.start()`
StartRecSpawn(t) ==
    /\ pc[t] = "st_spawn"
    /\ \E i \in DOMAIN loops :
         /\ loops[i].pc = "off"
         /\ \A j \in DOMAIN loops : loops[j].pc = "off" => i <= j
         /\ loops' = [loops EXCEPT ![i] = [pc |-> "check", n |-> 0]]
         /\ record_thread' = i
    /\ Goto(t, AfterStart(t))
    /\ UNCHANGED <<cfgVars, engVars, outVars, backend, callback, called, DEFAULT_CONFIG, config, cli, sink, presses, text, recording, audio_data, capped,
                   svcVars, localVars, quiet, escaped>>

\* ------------------------------------------------ STTService._on_trigger

\* an exception inside _process_audio meets its handler, then the one of _on_trigger
ProcessRaise ==
    IF OnProcessException = "caught" THEN "caught" ELSE OnTriggerException

\* the hotkey listener invokes the registered callback (_on_hotkey_pressed)
Fire(t) ==
    /\ pc[t] = "idle"
    /\ active
    /\ Goto(t, "check")
    /\ UNCHANGED <<cfgVars, engVars, outVars, backend, callback, called, DEFAULT_CONFIG, config, cli, sink, presses, text, audioVars, svcVars, localVars, quiet, escaped>>

\* `if self._processing: ... return`
TriggerCheck(t) ==
    /\ pc[t] = "check"
    /\ IF processing
       THEN /\ Goto(t, "idle")
            /\ processing' = BusyAfterDrop(processing)
       ELSE /\ Goto(t, "set")
            /\ UNCHANGED processing
    /\ UNCHANGED <<cfgVars, engVars, outVars, backend, callback, called, DEFAULT_CONFIG, config, cli, sink, presses, text, audioVars, running, ready, active, listeners, localVars,
                   quiet, escaped>>

\* `self._processing = True`
TriggerSet(t) ==
    /\ pc[t] = "set"
    /\ processing' = TRUE
    /\ Goto(t, "toggle")
    /\ UNCHANGED <<cfgVars, engVars, outVars, backend, callback, called, DEFAULT_CONFIG, config, cli, sink, presses, text, audioVars, running, ready, active, listeners, localVars,
                   quiet, escaped>>

\* `if self.audio_capture.is_recording():` and the call of the chosen method
TriggerToggle(t) ==
    /\ pc[t] = "toggle"
    /\ Goto(t, IF ToggleBranch(recording) = "stop" THEN "sr_check" ELSE "st_check")
    /\ UNCHANGED <<cfgVars, engVars, outVars, backend, callback, called, DEFAULT_CONFIG, config, cli, sink, presses, text, audioVars, svcVars, localVars, quiet, escaped>>

\* engine.transcribe returns the text r: `if text and text.strip():` leads to
\* output_handler.send_text or, for an empty result, to the end of _process_audio
TranscribeReturn(t) ==
    /\ pc[t] = "transcribing"
    /\ ready
    /\ \E r \in (IF engine_type = "dummy" THEN {DummyTranscribe(buf[t])} ELSE Texts) :
         IF HasText(r)
         THEN Goto(t, "send") /\ text' = [text EXCEPT ![t] = r]
         ELSE Goto(t, "finally") /\ UNCHANGED text
    /\ buf' = [buf EXCEPT ![t] = -1]
    /\ UNCHANGED <<cfgVars, engVars, outVars, backend, callback, called, DEFAULT_CONFIG, config, cli, sink, presses, audioVars, svcVars, exc, quiet, escaped>>

\* `if self.output_handler.send_text(text):` returns true or false, or raises
\* (caught in _process_audio)
SendText(t) ==
    /\ pc[t] = "send"
    /\ \E outcome \in {"true", "false", "raise"} :
         /\ exc' = [exc EXCEPT ![t] = IF outcome = "raise" THEN ProcessRaise ELSE @]
         /\ Goto(t, AfterSend(outcome))
    /\ text' = [text EXCEPT ![t] = <<>>]
    /\ sink' = IF sink_kind = "recorder" THEN Append(sink, text[t]) ELSE sink
    /\ UNCHANGED <<cfgVars, engVars, outVars, backend, callback, called, DEFAULT_CONFIG, config, cli, presses, audioVars, svcVars, buf, quiet, escaped>>

\* transcribe raises (always, when the engine is not ready; never, when a
\* DummyEngine is ready): caught in _process_audio
TranscribeRaise(t) ==
    /\ pc[t] = "transcribing"
    /\ engine_type = "dummy" => ~ready
    /\ exc' = [exc EXCEPT ![t] = ProcessRaise]
    /\ buf' = [buf EXCEPT ![t] = -1]
    /\ Goto(t, "finally")
    /\ UNCHANGED <<cfgVars, engVars, outVars, backend, callback, called, DEFAULT_CONFIG, config, cli, sink, presses, text, audioVars, svcVars, quiet, escaped>>

\* `finally: self._processing = False`, then the callback returns
TriggerFinally(t) ==
    /\ pc[t] = "finally"
    /\ processing' = BusyAtExit(exc[t])
    /\ escaped' = (escaped \/ exc[t] = "raised")
    /\ ResetLocals(t)
    /\ Goto(t, "idle")
    /\ UNCHANGED <<cfgVars, engVars, outVars, backend, callback, called, DEFAULT_CONFIG, config, cli, sink, presses, text, audioVars, running, ready, active, listeners, quiet>>

\* ------------------------------------- a direct user of an AudioCapture

\* the user calls start_recording()
ClientStart ==
    /\ pc[Client] = "idle"
    /\ Goto(Client, "st_check")
    /\ UNCHANGED <<cfgVars, engVars, outVars, backend, callback, called, DEFAULT_CONFIG, config, cli, sink, presses, text, audioVars, svcVars, localVars, quiet, escaped>>

\* the user calls stop_recording()
ClientStop ==
    /\ pc[Client] = "idle"
    /\ Goto(Client, "sr_check")
    /\ UNCHANGED <<cfgVars, engVars, outVars, backend, callback, called, DEFAULT_CONFIG, config, cli, sink, presses, text, audioVars, svcVars, localVars, quiet, escaped>>

\* the call has returned (or raised) to the user
ClientReturn ==
    /\ pc[Client] = "ret"
    /\ ResetLocals(Client)
    /\ Goto(Client, "idle")
    /\ UNCHANGED <<cfgVars, engVars, outVars, backend, callback, called, DEFAULT_CONFIG, config, cli, sink, presses, text, audioVars, svcVars, quiet, escaped>>

\* ----------------------------------------------------- STTService.start

StartCall ==
    /\ pc[Main] = "idle"
    /\ Goto(Main, "start")
    /\ UNCHANGED <<cfgVars, engVars, outVars, backend, callback, called, DEFAULT_CONFIG, config, cli, sink, presses, text, audioVars, svcVars, localVars, quiet, escaped>>

\* start(): `if self._running: return`; when the engine is not ready the model is
\* loaded, and load_model either raises to the caller or makes the engine ready
Start ==
    /\ pc[Main] = "start"
    /\ IF StartGuard(running)
       THEN Goto(Main, "idle") /\ UNCHANGED <<ready, exc>>
       ELSE IF NeedsLoad(ready)
            THEN \/ Goto(Main, "ret") /\ exc' = [exc EXCEPT ![Main] = "raised"]
                    /\ UNCHANGED ready
                 \/ Goto(Main, "start_reg") /\ ready' = TRUE /\ UNCHANGED exc
            ELSE Goto(Main, "start_reg") /\ UNCHANGED <<ready, exc>>
    /\ UNCHANGED <<cfgVars, engVars, outVars, backend, callback, called, DEFAULT_CONFIG, config, cli, sink, presses, text, audioVars, running, processing, active, listeners,
                   buf, quiet, escaped>>

\* `self.input_handler.start(self._on_trigger)`: a no-op when the source is already
\* active; else the callback is registered and a listener started, or the source
\* raises (`self._active = False; raise`); then `self._running = True`
StartRegister ==
    /\ pc[Main] = "start_reg"
    /\ IF active
       THEN /\ running' = TRUE
            /\ Goto(Main, "idle")
            /\ UNCHANGED <<active, listeners, exc>>
       ELSE \/ /\ active' = TRUE
               /\ listeners' = listeners + 1
               /\ running' = TRUE
               /\ Goto(Main, "idle")
               /\ UNCHANGED exc
            \/ /\ running' = RunningOnRegisterFailure
               /\ Goto(Main, "ret")
               /\ exc' = [exc EXCEPT ![Main] = "raised"]
               /\ UNCHANGED <<active, listeners>>
    /\ UNCHANGED <<cfgVars, engVars, outVars, backend, callback, called, DEFAULT_CONFIG, config, cli, sink, presses, text, audioVars, processing, ready, buf, quiet, escaped>>

\* the exception of start() or stop() is with the caller
MainReturn ==
    /\ pc[Main] = "ret"
    /\ ResetLocals(Main)
    /\ Goto(Main, "idle")
    /\ UNCHANGED <<cfgVars, engVars, outVars, backend, callback, called, DEFAULT_CONFIG, config, cli, sink, presses, text, audioVars, svcVars, quiet, escaped>>

\* ------------------------------------------------------ STTService.stop

StopCall ==
    /\ pc[Main] = "idle"
    /\ Goto(Main, "stop")
    /\ UNCHANGED <<cfgVars, engVars, outVars, backend, callback, called, DEFAULT_CONFIG, config, cli, sink, presses, text, audioVars, svcVars, localVars, quiet, escaped>>

\* `if not self._running: return`, else `self.input_handler.stop()`: the listener
\* is stopped, _active and _callback are cleared
StopUnregister ==
    /\ pc[Main] = "stop"
    /\ IF ~running
       THEN /\ Goto(Main, "idle")
            /\ UNCHANGED <<active, listeners, quiet>>
       ELSE /\ active' = FALSE
            /\ listeners' = 0
            /\ quiet' = (\A t \in Triggers : pc[t] = "idle")
            /\ Goto(Main, "stop_audio")
    /\ UNCHANGED <<cfgVars, engVars, outVars, backend, callback, called, DEFAULT_CONFIG, config, cli, sink, presses, text, audioVars, running, processing, ready, localVars, escaped>>

\* `if self.audio_capture and self.audio_capture.is_recording(): stop_recording()`
StopAudio ==
    /\ pc[Main] = "stop_audio"
    /\ Goto(Main, IF ForceStop(recording) THEN "sr_check" ELSE "stop_clear")
    /\ UNCHANGED <<cfgVars, engVars, outVars, backend, callback, called, DEFAULT_CONFIG, config, cli, sink, presses, text, audioVars, svcVars, localVars, quiet, escaped>>

\* `self._running = False`, stop() returns; the buffer it harvested is dropped
StopClear ==
    /\ pc[Main] = "stop_clear"
    /\ running' = FALSE
    /\ ResetLocals(Main)
    /\ quiet' = FALSE
    /\ Goto(Main, "idle")
    /\ UNCHANGED <<cfgVars, engVars, outVars, backend, callback, called, DEFAULT_CONFIG, config, cli, sink, presses, text, audioVars, processing, ready, active, listeners, escaped>>

\* ------------------------------------------------------------------ Next

Next ==
    \/ StartCall \/ Start \/ StartRegister \/ MainReturn
    \/ StopCall \/ StopUnregister \/ StopAudio \/ StopClear
    \/ \E a \in Triggers \cup {Main} : StopRecCheck(a)
    \/ \E a \in Triggers \cup {Main} : StopRecClear(a)
    \/ \E a \in Triggers \cup {Main} : StopRecJoin(a)
    \/ \E t \in Triggers : Fire(t)
    \/ \E t \in Triggers : TriggerCheck(t)
    \/ \E t \in Triggers : TriggerSet(t)
    \/ \E t \in Triggers : TriggerToggle(t)
    \/ \E t \in Triggers : StartRecCheck(t)
    \/ \E t \in Triggers : StartRecSet(t)
    \/ \E t \in Triggers : StartRecClear(t)
    \/ \E t \in Triggers : StartRecSpawn(t)
    \/ \E t \in Triggers : TranscribeReturn(t)
    \/ \E t \in Triggers : TranscribeRaise(t)
    \/ \E t \in Triggers : SendText(t)
    \/ \E t \in Triggers : TriggerFinally(t)
    \/ \E i \in DOMAIN loops : LoopCheck(i)
    \/ \E i \in DOMAIN loops : LoopRead(i)
    \/ \E i \in DOMAIN loops : LoopFail(i)
    \/ \E i \in DOMAIN loops : LoopExit(i)

Spec == Init /\ [][Next]_vars

\* ------------------------------------- an AudioCapture used on its own

InitCapture ==
    /\ sample_rate \in Rates
    /\ max_duration \in CaptureDurations
    /\ available \in BOOLEAN
    /\ engine_type = "model"
    /\ sink_kind = "device"
    /\ sink = <<>>
    /\ presses = 0
    /\ recording = FALSE
    /\ audio_data = <<>>
    /\ record_thread = 0
    /\ loops = [i \in LoopIds |-> LoopOff]
    /\ capped = FALSE
    /\ running = FALSE
    /\ processing = FALSE
    /\ ready = FALSE
    /\ active = FALSE
    /\ listeners = 0
    /\ pc = [a \in Actors |-> "idle"]
    /\ buf = [a \in Actors |-> -1]
    /\ exc = [a \in Actors |-> "none"]
    /\ text = [a \in Actors |-> <<>>]
    /\ quiet = FALSE
    /\ escaped = FALSE
    /\ Opaque
    /\ backend = [lib |-> "pynput", available |-> TRUE]
    /\ callback = "none"
    /\ called = <<>>
    /\ DEFAULT_CONFIG = DefaultConfig
    /\ config = [i \in Instances |-> [born |-> FALSE]]
    /\ cli = "none"

NextCapture ==
    \/ ClientStart \/ ClientStop \/ ClientReturn
    \/ StartRecCheck(Client) \/ StartRecSet(Client)
    \/ StartRecClear(Client) \/ StartRecSpawn(Client)
    \/ StopRecCheck(Client) \/ StopRecClear(Client)
    \/ StopRecJoin(Client)
    \/ \E i \in DOMAIN loops : LoopCheck(i)
    \/ \E i \in DOMAIN loops : LoopRead(i)
    \/ \E i \in DOMAIN loops : LoopFail(i)
    \/ \E i \in DOMAIN loops : LoopExit(i)

SpecCapture == InitCapture /\ [][NextCapture]_vars

\* the caller's thread keeps running while it is inside stop_recording(); nothing
\* is assumed of the capture threads, whose device read may block for ever
SpecCaptureLive ==
    /\ SpecCapture
    /\ WF_vars(StopRecCheck(Client))
    /\ WF_vars(StopRecClear(Client))
    /\ WF_vars(StopRecJoin(Client))

\* ------------------ a round trip: DummyEngine, recorder sink, one listener thread

\* the listener thread
RoundTrigger == 1

InitRound ==
    /\ sample_rate = 16000
    /\ max_duration \in RoundDurations
    /\ available = TRUE
    /\ engine_type = "dummy"
    /\ sink_kind = "recorder"
    /\ sink = <<>>
    /\ presses = 0
    /\ recording = FALSE
    /\ audio_data = <<>>
    /\ record_thread = 0
    /\ loops = [i \in ServiceLoopIds |-> LoopOff]
    /\ capped = FALSE
    /\ running = FALSE
    /\ processing = FALSE
    /\ ready = FALSE
    /\ active = FALSE
    /\ listeners = 0
    /\ pc = [a \in Actors |-> "idle"]
    /\ buf = [a \in Actors |-> -1]
    /\ exc = [a \in Actors |-> "none"]
    /\ text = [a \in Actors |-> <<>>]
    /\ quiet = FALSE
    /\ escaped = FALSE
    /\ Opaque
    /\ backend = [lib |-> "pynput", available |-> TRUE]
    /\ callback = "none"
    /\ called = <<>>
    /\ DEFAULT_CONFIG = DefaultConfig
    /\ config = [i \in Instances |-> [born |-> FALSE]]
    /\ cli = "none"

\* a hotkey press is delivered to the registered callback, and counted
Press(t) ==
    /\ pc[t] = "idle"
    /\ active
    /\ presses < MaxPresses
    /\ presses' = presses + 1
    /\ Goto(t, "check")
    /\ UNCHANGED <<cfgVars, engVars, outVars, backend, callback, called, DEFAULT_CONFIG, config, cli, sink, text, audioVars, svcVars, localVars, quiet, escaped>>

NextRound ==
    \/ StartCall \/ Start \/ StartRegister \/ MainReturn
    \/ Press(RoundTrigger)
    \/ TriggerCheck(RoundTrigger) \/ TriggerSet(RoundTrigger)
    \/ TriggerToggle(RoundTrigger)
    \/ StartRecCheck(RoundTrigger) \/ StartRecSet(RoundTrigger)
    \/ StartRecClear(RoundTrigger) \/ StartRecSpawn(RoundTrigger)
    \/ StopRecCheck(RoundTrigger) \/ StopRecClear(RoundTrigger)
    \/ StopRecJoin(RoundTrigger)
    \/ TranscribeReturn(RoundTrigger) \/ SendText(RoundTrigger)
    \/ TriggerFinally(RoundTrigger)
    \/ \E i \in DOMAIN loops : LoopCheck(i)
    \/ \E i \in DOMAIN loops : LoopRead(i)
    \/ \E i \in DOMAIN loops : LoopExit(i)

SpecRound == InitRound /\ [][NextRound]_vars

\* ------------------------------------------ a recognition engine on its own

\* model.type values of a configuration: the registered ones, one of them in
\* capitals, and one that create_engine does not know
ModelTypes == {"dummy", "whisper", "faster-whisper", "WHISPER", "vosk"}

\* str.lower() on those values
Lower(t) == IF t = "WHISPER" THEN "whisper" ELSE t

\* the types create_engine has a branch for
Registered == {"dummy", "whisper", "faster-whisper"}

\* create_engine: the class constructed for the requested type, the `else`
\* branch constructs a FasterWhisperEngine
EngineClass(t) == IF Lower(t) \in Registered THEN Lower(t) ELSE "faster-whisper"

\* model.path values: empty (create_engine loads nothing) or a model name
ModelPaths == {"", "base"}

\* how load_model may end: the dummy load cannot fail, whisper.load_model returns or
\* the import or the load raises, WhisperModel is built on the GPU or, failing
\* that, on the CPU, or the import or both constructions raise
LoadOutcomes(e) ==
    CASE e = "dummy" -> {"loaded"}
      [] e = "whisper" -> {"loaded", "import_error", "error"}
      [] OTHER -> {"gpu", "cpu", "import_error", "error"}

LoadSucceeds(o) == o \in {"loaded", "gpu", "cpu"}

\* (the flag set before the model is built)
ReadyAfterFailedLoadSet(r) == TRUE

\* load_model: `self.ready = True` follows the construction of the model, so a
\* load that raises leaves the flag r as it was
ReadyAfterFailedLoad(r) == r

\* max_samples = 16000 * 10 of both transcribe methods
MaxInferenceSamples == 16000 * 10

\* buffer lengths explored, in frames
Lens == {0, 15999, 16000, 47999, 48000, 96000, 160000, 160001}

\* channels a buffer may have
MaxChannels == 2

\* shapes of the arrays handed to transcribe: (n,) and (n, channels)
Shapes == {<<n>> : n \in Lens} \cup {<<n, c>> : n \in Lens, c \in 1..MaxChannels}

\* len(audio): the first dimension
Rows(a) == a[1]

\* audio.size: the number of samples
Size(a) == IF Len(a) = 1 THEN a[1] ELSE a[1] * a[2]

\* audio[:max_samples] when len(audio) > max_samples: cuts the first dimension
Truncate(a) ==
    IF Rows(a) > MaxInferenceSamples THEN [a EXCEPT ![1] = MaxInferenceSamples] ELSE a

\* audio.flatten(): one dimension holding every sample
Flatten(a) == <<Size(a)>>

\* WhisperEngine.transcribe: the length is limited first, `if len(audio.shape) > 1:
\* audio = audio.flatten()` comes after it
WhisperPrepare(a) == IF Len(a) > 1 THEN Flatten(Truncate(a)) ELSE Truncate(a)

\* FasterWhisperEngine.transcribe: `if len(audio.shape) == 2:` one column is
\* flattened, several are averaged (np.mean(audio, axis=1)), then the length is
\* limited
FasterWhisperPrepare(a) == Truncate(IF Len(a) = 2 THEN <<Rows(a)>> ELSE a)

\* audio.nbytes of float32 samples above 50 MB
TooLarge(a) == Size(a) * 4 > 50 * 1024 * 1024

\* how the call of the inference model may end: it returns, it raises an error
\* whose message holds "allocate memory" or "out of memory", it raises a
\* MemoryError, it raises any other error
InferenceOutcomes == {"ok", "alloc_message", "memory_error", "error"}

MemoryFailures == {"alloc_message", "memory_error"}

\* "[Memory Error: Audio too long or system low on RAM]"
MemoryErrorText ==
    <<"[", "M", "e", "m", "o", "r", "y", " ", "E", "r", "r", "o", "r", ":", " ",
    "A", "u", "d", "i", "o", " ", "t", "o", "o", " ", "l", "o", "n", "g", " ",
    "o", "r", " ", "s", "y", "s", "t", "e", "m", " ", "l", "o", "w", " ", "o",
    "n", " ", "R", "A", "M", "]">>

\* WhisperEngine.transcribe `except Exception as e:` the message of the error is
\* searched for "allocate memory" and "out of memory"
WhisperOnError(o) == IF o = "alloc_message" THEN MemoryErrorText ELSE <<>>

\* FasterWhisperEngine.transcribe `except MemoryError`, `except RuntimeError`,
\* `except Exception`: each returns ""
FasterWhisperOnError(o) == <<>>

\* (a transcribe without the test of readiness)
NotLoadedNever(r, m) == FALSE

\* `if not self.ready or self.model is None: raise RuntimeError(...)`
NotLoaded(r, m) == ~r \/ ~m

\* self._ensure_model_loaded() of FasterWhisperEngine.transcribe: the class has no
\* such method, the call raises AttributeError; where the method is provided it
\* returns, and readiness is as load_model left it
EnsureModelLoaded == {"attribute_error", "returns"}

\* what the engine actions leave alone
engineFrame == <<sample_rate, max_duration, available, sink_kind, sink, presses, audioVars,
                 running, processing, active, listeners, buf, quiet, escaped, model_type,
                 outVars, backend, callback, called, DEFAULT_CONFIG, config, cli>>

\* transcribe raises to its caller
Raised == [text |-> <<>>, exc |-> "raised", inference |-> NoInference]

\* transcribe returns the text t, having called the inference model as i tells
Returned(t, i) == [text |-> t, exc |-> "none", inference |-> i]

\* DummyEngine.transcribe: `if not self.ready: raise RuntimeError`, else the answer
\* chosen on len(audio)
DummyCall(r, a) ==
    IF ~r THEN Raised ELSE Returned(DummyTranscribe(Rows(a)), NoInference)

\* WhisperEngine.transcribe of an array of shape a, the inference ending as o with
\* the raw text raw: audio.max() of an empty array raises inside the try block
WhisperCall(r, m, a, o, raw) ==
    IF NotLoaded(r, m) THEN Raised
    ELSE IF Size(a) = 0 THEN Returned(WhisperOnError("error"), NoInference)
    ELSE LET fed == [samples |-> Size(WhisperPrepare(a)), outcome |-> o]
         IN  IF o = "ok" THEN Returned(Strip(raw), fed)
             ELSE Returned(WhisperOnError(o), fed)

\* FasterWhisperEngine.transcribe: the call of _ensure_model_loaded ends as e; an
\* array that is too large, empty or silent gives "" without inference
FasterWhisperCall(r, m, a, e, silent, o, raw) ==
    IF e = "attribute_error" THEN Raised
    ELSE IF NotLoaded(r, m) THEN Raised
    ELSE LET b == FasterWhisperPrepare(a)
             fed == [samples |-> Size(b), outcome |-> o]
         IN  IF TooLarge(b) \/ Size(b) = 0 \/ silent THEN Returned(<<>>, NoInference)
             ELSE IF o = "ok" THEN Returned(Strip(raw), fed)
             ELSE Returned(FasterWhisperOnError(o), fed)

\* create_engine(model.type, model.path): the engine is constructed and, when a
\* path is given, loaded; a load that raises leaves the caller without engine
CreateEngine ==
    /\ pc[Client] = "idle"
    /\ engine_type = "none"
    /\ \E path \in ModelPaths : \E o \in LoadOutcomes(EngineClass(model_type)) :
         IF path = ""
         THEN /\ engine_type' = EngineClass(model_type)
              /\ UNCHANGED <<ready, model, pc, exc>>
         ELSE IF LoadSucceeds(o)
         THEN /\ engine_type' = EngineClass(model_type)
              /\ ready' = TRUE
              /\ model' = (EngineClass(model_type) # "dummy")
              /\ UNCHANGED <<pc, exc>>
         ELSE /\ Goto(Client, "ret")
              /\ exc' = [exc EXCEPT ![Client] = "raised"]
              /\ UNCHANGED <<engine_type, ready, model>>
    /\ UNCHANGED <<engineFrame, text, audio, inference>>

\* the user calls load_model
LoadCall ==
    /\ pc[Client] = "idle"
    /\ engine_type # "none"
    /\ Goto(Client, "load")
    /\ UNCHANGED <<engineFrame, engine_type, ready, model, exc, text, audio, inference>>

\* load_model: the model is built and the engine made ready, or the error is
\* logged and raised again
LoadModel ==
    /\ pc[Client] = "load"
    /\ \E o \in LoadOutcomes(engine_type) :
         IF LoadSucceeds(o)
         THEN /\ ready' = TRUE
              /\ model' = (engine_type # "dummy")
              /\ UNCHANGED exc
         ELSE /\ ready' = ReadyAfterFailedLoad(ready)
              /\ exc' = [exc EXCEPT ![Client] = "raised"]
              /\ UNCHANGED model
    /\ Goto(Client, "ret")
    /\ UNCHANGED <<engineFrame, engine_type, text, audio, inference>>

\* the user calls transcribe with an array of some shape
TranscribeCall ==
    /\ pc[Client] = "idle"
    /\ engine_type # "none"
    /\ \E a \in Shapes : audio' = a
    /\ Goto(Client, "transcribe")
    /\ UNCHANGED <<engineFrame, engine_type, ready, model, exc, text, inference>>

\* transcribe of the engine's class
Transcribe ==
    /\ pc[Client] = "transcribe"
    /\ \E e \in EnsureModelLoaded, silent \in BOOLEAN, o \in InferenceOutcomes, raw \in Texts :
         LET out == CASE engine_type = "dummy" -> DummyCall(ready, audio)
                      [] engine_type = "whisper" -> WhisperCall(ready, model, audio, o, raw)
                      [] OTHER -> FasterWhisperCall(ready, model, audio, e, silent, o, raw)
         IN  /\ text' = [text EXCEPT ![Client] = out.text]
             /\ exc' = [exc EXCEPT ![Client] = out.exc]
             /\ inference' = out.inference
    /\ Goto(Client, "ret")
    /\ UNCHANGED <<engineFrame, engine_type, ready, model, audio>>

\* the call has returned (or raised) to the user
EngineReturn ==
    /\ pc[Client] = "ret"
    /\ exc' = [exc EXCEPT ![Client] = "none"]
    /\ text' = [text EXCEPT ![Client] = <<>>]
    /\ audio' = <<>>
    /\ inference' = NoInference
    /\ Goto(Client, "idle")
    /\ UNCHANGED <<engineFrame, engine_type, ready, model>>

InitEngine ==
    /\ sample_rate = 16000
    /\ max_duration \in ServiceDurations
    /\ available = TRUE
    /\ engine_type = "none"
    /\ sink_kind = "device"
    /\ sink = <<>>
    /\ presses = 0
    /\ recording = FALSE
    /\ audio_data = <<>>
    /\ record_thread = 0
    /\ loops = [i \in ServiceLoopIds |-> LoopOff]
    /\ capped = FALSE
    /\ running = FALSE
    /\ processing = FALSE
    /\ ready = FALSE
    /\ active = FALSE
    /\ listeners = 0
    /\ pc = [a \in Actors |-> "idle"]
    /\ buf = [a \in Actors |-> -1]
    /\ exc = [a \in Actors |-> "none"]
    /\ text = [a \in Actors |-> <<>>]
    /\ quiet = FALSE
    /\ escaped = FALSE
    /\ model_type \in ModelTypes
    /\ model = FALSE
    /\ audio = <<>>
    /\ inference = NoInference
    /\ handlers = <<>>
    /\ invoked = <<>>
    /\ os_calls = <<>>
    /\ result = "none"
    /\ backend = [lib |-> "pynput", available |-> TRUE]
    /\ callback = "none"
    /\ called = <<>>
    /\ DEFAULT_CONFIG = DefaultConfig
    /\ config = [i \in Instances |-> [born |-> FALSE]]
    /\ cli = "none"

NextEngine ==
    \/ CreateEngine \/ LoadCall \/ LoadModel
    \/ TranscribeCall \/ Transcribe \/ EngineReturn

SpecEngine == InitEngine /\ [][NextEngine]_vars

\* --------------------------------------------- an output handler on its own

\* the classes a CompositeHandler may hold
HandlerKinds == {"keyboard", "clipboard"}

\* handlers a CompositeHandler holds at most
MaxHandlers == 2

\* a KeyboardHandler or ClipboardHandler whose library could (not) be imported
Handlers == [kind : HandlerKinds, available : BOOLEAN]

\* the lists CompositeHandler(*handlers) may be given, the empty one included
HandlerLists == UNION {[1..n -> Handlers] : n \in 0..MaxHandlers}

\* (a failure of the keystroke or clipboard operation left to the caller)
OnOsFailureRaised == "raise"

\* `except Exception as e: ... return False` of both send_text methods
OnOsFailure == "false"

\* KeyboardHandler.send_text and ClipboardHandler.send_text of handler h for the
\* text t, the operation of the OS succeeding or not (ok): `if not
\* self.available: return False`, `if not text: return True`, then
\* controller.type(text) or pyperclip.copy(text) inside a try block
HandlerSend(h, t, ok) ==
    IF ~h.available THEN [returned |-> "false", os |-> <<>>]
    ELSE IF t = <<>> THEN [returned |-> "true", os |-> <<>>]
    ELSE [returned |-> IF ok THEN "true" ELSE OnOsFailure,
          os |-> <<[kind |-> h.kind, text |-> t, ok |-> ok]>>]

\* (the result of the last handler kept)
AccumulateLast(success, r) == r

\* `if handler.send_text(text): success = True`
Accumulate(success, r) == success \/ r

\* the loop of CompositeHandler.send_text from handler i on: a handler that is
\* not available is passed over, an exception of a handler ends the loop
RECURSIVE CompositeLoop(_, _, _, _, _)
CompositeLoop(hs, i, t, oks, acc) ==
    IF i > Len(hs) THEN acc
    ELSE IF ~hs[i].available THEN CompositeLoop(hs, i + 1, t, oks, acc)
    ELSE LET r == HandlerSend(hs[i], t, oks[i])
             next == [success |-> Accumulate(acc.success, r.returned = "true"),
                      invoked |-> Append(acc.invoked, [index |-> i, returned |-> r.returned]),
                      os |-> acc.os \o r.os,
                      raised |-> r.returned = "raise"]
         IN  IF next.raised THEN next ELSE CompositeLoop(hs, i + 1, t, oks, next)

\* CompositeHandler.send_text: `if not self.handlers: return False`, then the loop
CompositeSend(hs, t, oks) ==
    IF hs = <<>> THEN [returned |-> "false", invoked |-> <<>>, os |-> <<>>]
    ELSE LET a == CompositeLoop(hs, 1, t, oks,
                      [success |-> FALSE, invoked |-> <<>>, os |-> <<>>, raised |-> FALSE])
         IN  [returned |-> IF a.raised THEN "raise"
                           ELSE IF a.success THEN "true" ELSE "false",
              invoked |-> a.invoked, os |-> a.os]

\* any(h.is_available() for h in self.handlers)
RECURSIVE AnyAvailable(_)
AnyAvailable(hs) ==
    IF hs = <<>> THEN FALSE
    ELSE IF Head(hs).available THEN TRUE ELSE AnyAvailable(Tail(hs))

\* what the output actions leave alone
outputFrame == <<sample_rate, max_duration, available, engine_type, sink_kind, sink, presses,
                 audioVars, svcVars, buf, quiet, escaped, engVars, handlers,
                 backend, callback, called, DEFAULT_CONFIG, config, cli>>

\* the user calls send_text with some text
SendCall ==
    /\ pc[Client] = "idle"
    /\ \E t \in Texts : text' = [text EXCEPT ![Client] = t]
    /\ Goto(Client, "send_text")
    /\ UNCHANGED <<outputFrame, exc, invoked, os_calls, result>>

\* send_text of the handler's class, each operation of the OS succeeding or not
SinkSend ==
    /\ pc[Client] = "send_text"
    /\ \E oks \in [DOMAIN handlers -> BOOLEAN] :
         LET out == IF sink_kind = "composite"
                    THEN CompositeSend(handlers, text[Client], oks)
                    ELSE [invoked |-> <<>>] @@ HandlerSend(handlers[1], text[Client], oks[1])
         IN  /\ result' = IF out.returned = "raise" THEN "none" ELSE out.returned
             /\ exc' = [exc EXCEPT ![Client] = IF out.returned = "raise" THEN "raised" ELSE @]
             /\ invoked' = out.invoked
             /\ os_calls' = out.os
    /\ Goto(Client, "ret")
    /\ UNCHANGED <<outputFrame, text>>

\* the call has returned to the user
SinkReturn ==
    /\ pc[Client] = "ret"
    /\ exc' = [exc EXCEPT ![Client] = "none"]
    /\ text' = [text EXCEPT ![Client] = <<>>]
    /\ invoked' = <<>>
    /\ os_calls' = <<>>
    /\ result' = "none"
    /\ Goto(Client, "idle")
    /\ UNCHANGED outputFrame

InitSink ==
    /\ sample_rate = 16000
    /\ max_duration \in ServiceDurations
    /\ available = TRUE
    /\ engine_type = "model"
    /\ sink_kind \in {"keyboard", "clipboard", "composite"}
    /\ sink = <<>>
    /\ presses = 0
    /\ recording = FALSE
    /\ audio_data = <<>>
    /\ record_thread = 0
    /\ loops = [i \in ServiceLoopIds |-> LoopOff]
    /\ capped = FALSE
    /\ running = FALSE
    /\ processing = FALSE
    /\ ready = FALSE
    /\ active = FALSE
    /\ listeners = 0
    /\ pc = [a \in Actors |-> "idle"]
    /\ buf = [a \in Actors |-> -1]
    /\ exc = [a \in Actors |-> "none"]
    /\ text = [a \in Actors |-> <<>>]
    /\ quiet = FALSE
    /\ escaped = FALSE
    /\ model_type = "whisper"
    /\ model = FALSE
    /\ audio = <<>>
    /\ inference = NoInference
    /\ handlers \in IF sink_kind = "composite" THEN HandlerLists
                    ELSE {<<h>> : h \in {x \in Handlers : x.kind = sink_kind}}
    /\ invoked = <<>>
    /\ os_calls = <<>>
    /\ result = "none"
    /\ backend = [lib |-> "pynput", available |-> TRUE]
    /\ callback = "none"
    /\ called = <<>>
    /\ DEFAULT_CONFIG = DefaultConfig
    /\ config = [i \in Instances |-> [born |-> FALSE]]
    /\ cli = "none"

NextSink == SendCall \/ SinkSend \/ SinkReturn

SpecSink == InitSink /\ [][NextSink]_vars

\* ------------------------------------------- the trigger source on its own
\* HotkeyHandler and PynputHotkeyHandler of input/hotkey.py, driven by a user of
\* the API (the Client) while the library's listener threads deliver key events.

\* (a source that registers again whatever its state)
AlreadyActiveNever(a) == FALSE

\* `if self._active:` of start: the source is already active, warn and return
AlreadyActive(a) == a

\* (a stop that keeps the callback)
CallbackAfterStopKept(cb) == cb

\* `self._callback = None` of stop
CallbackAfterStop(cb) == "none"

\* what the trigger source actions leave alone
hotkeyFrame == <<cfgVars, sink, presses, audioVars, running, processing, ready, buf, text,
                 quiet, escaped, engVars, outVars, backend, DEFAULT_CONFIG, config, cli>>

\* start(callback) up to the registration: RuntimeError without the library, the
\* warning when already active, else the callback and the active flag are set
HotkeyStart(cb) ==
    /\ pc[Client] = "idle"
    /\ IF ~backend.available
       THEN /\ Goto(Client, "ret")
            /\ exc' = [exc EXCEPT ![Client] = "raised"]
            /\ UNCHANGED <<active, callback>>
       ELSE IF AlreadyActive(active)
       THEN /\ Goto(Client, "hk_warn")
            /\ UNCHANGED <<active, callback, exc>>
       ELSE /\ callback' = cb
            /\ active' = TRUE
            /\ Goto(Client, "hk_register")
            /\ UNCHANGED exc
    /\ UNCHANGED <<hotkeyFrame, listeners, called>>

\* logger.warning("Hotkey handler already active"); return
HotkeyWarn ==
    /\ pc[Client] = "hk_warn"
    /\ Goto(Client, "ret")
    /\ UNCHANGED <<hotkeyFrame, active, listeners, callback, called, exc>>

\* add_hotkey, or HotKey, Listener and Listener.start(): the registration is made,
\* or the library raises, the flag is taken back and the exception goes on
HotkeyRegister ==
    /\ pc[Client] = "hk_register"
    /\ \/ /\ listeners' = listeners + 1
          /\ UNCHANGED <<active, exc>>
       \/ /\ active' = FALSE
          /\ exc' = [exc EXCEPT ![Client] = "raised"]
          /\ UNCHANGED listeners
    /\ Goto(Client, "ret")
    /\ UNCHANGED <<hotkeyFrame, callback, called>>

\* the user calls stop()
HotkeyStopCall ==
    /\ pc[Client] = "idle"
    /\ Goto(Client, "hk_stop")
    /\ UNCHANGED <<hotkeyFrame, active, listeners, callback, called, exc>>

\* stop(): nothing when not active; else the registration is taken back
\* (remove_hotkey, whose exception is logged and dropped, or Listener.stop()) and
\* the flag and the callback are cleared
HotkeyStop ==
    /\ pc[Client] = "hk_stop"
    /\ IF ~active
       THEN UNCHANGED <<active, listeners, callback>>
       ELSE /\ listeners' = 0
            /\ active' = FALSE
            /\ callback' = CallbackAfterStop(callback)
    /\ Goto(Client, "ret")
    /\ UNCHANGED <<hotkeyFrame, called, exc>>

\* the library's listener thread t sees the key combination and enters
\* _on_hotkey_pressed
Deliver(t) ==
    /\ pc[t] = "idle"
    /\ listeners > 0
    /\ Len(called) < MaxPresses
    /\ Goto(t, "hk_pressed")
    /\ UNCHANGED <<hotkeyFrame, active, listeners, callback, called, exc>>

\* `if self._callback:`
HotkeyPressed(t) ==
    /\ pc[t] = "hk_pressed"
    /\ Goto(t, IF callback # "none" THEN "hk_call" ELSE "idle")
    /\ UNCHANGED <<hotkeyFrame, active, listeners, callback, called, exc>>

\* `self._callback()`: the attribute is read again and called; calling None is a
\* TypeError the surrounding handler logs
HotkeyInvoke(t) ==
    /\ pc[t] = "hk_call"
    /\ called' = IF callback # "none" THEN Append(called, callback) ELSE called
    /\ Goto(t, "idle")
    /\ UNCHANGED <<hotkeyFrame, active, listeners, callback, exc>>

InitTrigger ==
    /\ sample_rate = 16000
    /\ max_duration \in ServiceDurations
    /\ available = TRUE
    /\ engine_type = "model"
    /\ sink_kind = "device"
    /\ sink = <<>>
    /\ presses = 0
    /\ recording = FALSE
    /\ audio_data = <<>>
    /\ record_thread = 0
    /\ loops = [i \in ServiceLoopIds |-> LoopOff]
    /\ capped = FALSE
    /\ running = FALSE
    /\ processing = FALSE
    /\ ready = FALSE
    /\ active = FALSE
    /\ listeners = 0
    /\ pc = [a \in Actors |-> "idle"]
    /\ buf = [a \in Actors |-> -1]
    /\ exc = [a \in Actors |-> "none"]
    /\ text = [a \in Actors |-> <<>>]
    /\ quiet = FALSE
    /\ escaped = FALSE
    /\ Opaque
    /\ backend \in [lib : {"keyboard", "pynput"}, available : BOOLEAN]
    /\ callback = "none"
    /\ called = <<>>
    /\ DEFAULT_CONFIG = DefaultConfig
    /\ config = [i \in Instances |-> [born |-> FALSE]]
    /\ cli = "none"

NextTrigger ==
    \/ \E cb \in {"cb1", "cb2"} : HotkeyStart(cb)
    \/ HotkeyWarn
    \/ HotkeyRegister
    \/ HotkeyStopCall
    \/ HotkeyStop
    \/ ClientReturn
    \/ \E t \in Triggers : Deliver(t)
    \/ \E t \in Triggers : HotkeyPressed(t)
    \/ \E t \in Triggers : HotkeyInvoke(t)

SpecTrigger == InitTrigger /\ [][NextTrigger]_vars

\* ------------------------------------------------- the service run from the CLI
\* run_service of cli.py and STTService.run on the main thread: the orchestrator is
\* constructed, started, left running until the loop is left, and stopped, while
\* the hotkey listener and the capture thread run as in the service.

\* Config(...) and STTService(config): a component fails to initialize and the
\* exception reaches run_service, or service.run() is entered and calls start()
RunInit ==
    /\ cli = "init"
    /\ \/ cli' = "exit1" /\ UNCHANGED pc
       \/ cli' = "start" /\ Goto(Main, "start")
    /\ UNCHANGED <<cfgVars, engVars, outVars, backend, callback, called, DEFAULT_CONFIG, config,
                   sink, presses, text, audioVars, svcVars, buf, quiet, escaped, exc>>

\* start() or stop() has returned to run(): after start() the loop is entered,
\* after stop() run() returns and the process ends normally; or the call has raised,
\* outside the `try` of run() or out of its `finally`, and the exception reaches
\* `except Exception` of run_service: sys.exit(1)
RunAfterCall ==
    /\ cli \in {"start", "stop"}
    /\ \/ /\ pc[Main] = "idle"
          /\ cli' = IF cli = "start" THEN "loop" ELSE "exit0"
          /\ UNCHANGED <<pc, exc>>
       \/ /\ pc[Main] = "ret"
          /\ cli' = "exit1"
          /\ exc' = [exc EXCEPT ![Main] = "none"]
          /\ Goto(Main, "idle")
    /\ UNCHANGED <<cfgVars, engVars, outVars, backend, callback, called, DEFAULT_CONFIG, config,
                   sink, presses, text, audioVars, svcVars, buf, quiet, escaped>>

\* `while self._running: time.sleep(0.1)` is left, by KeyboardInterrupt (caught
\* and logged by run()) or because _running is false
RunLeave ==
    /\ cli = "loop"
    /\ cli' = "stop"
    /\ Goto(Main, "stop")
    /\ UNCHANGED <<cfgVars, engVars, outVars, backend, callback, called, DEFAULT_CONFIG, config,
                   sink, presses, text, audioVars, svcVars, buf, quiet, escaped, exc>>

InitRun ==
    /\ sample_rate = 16000
    /\ max_duration \in ServiceDurations
    /\ available \in BOOLEAN
    /\ engine_type = "model"
    /\ sink_kind = "device"
    /\ sink = <<>>
    /\ presses = 0
    /\ recording = FALSE
    /\ audio_data = <<>>
    /\ record_thread = 0
    /\ loops = [i \in ServiceLoopIds |-> LoopOff]
    /\ capped = FALSE
    /\ running = FALSE
    /\ processing = FALSE
    /\ ready = FALSE
    /\ active = FALSE
    /\ listeners = 0
    /\ pc = [a \in Actors |-> "idle"]
    /\ buf = [a \in Actors |-> -1]
    /\ exc = [a \in Actors |-> "none"]
    /\ text = [a \in Actors |-> <<>>]
    /\ quiet = FALSE
    /\ escaped = FALSE
    /\ Opaque
    /\ backend = [lib |-> "pynput", available |-> TRUE]
    /\ callback = "none"
    /\ called = <<>>
    /\ DEFAULT_CONFIG = DefaultConfig
    /\ config = [i \in Instances |-> [born |-> FALSE]]
    /\ cli = "init"

NextRun ==
    \/ RunInit \/ RunAfterCall \/ RunLeave
    \/ Start \/ StartRegister
    \/ StopUnregister \/ StopAudio \/ StopClear
    \/ \E a \in Triggers \cup {Main} : StopRecCheck(a)
    \/ \E a \in Triggers \cup {Main} : StopRecClear(a)
    \/ \E a \in Triggers \cup {Main} : StopRecJoin(a)
    \/ \E t \in Triggers : Fire(t)
    \/ \E t \in Triggers : TriggerCheck(t)
    \/ \E t \in Triggers : TriggerSet(t)
    \/ \E t \in Triggers : TriggerToggle(t)
    \/ \E t \in Triggers : StartRecCheck(t)
    \/ \E t \in Triggers : StartRecSet(t)
    \/ \E t \in Triggers : StartRecClear(t)
    \/ \E t \in Triggers : StartRecSpawn(t)
    \/ \E t \in Triggers : TranscribeReturn(t)
    \/ \E t \in Triggers : TranscribeRaise(t)
    \/ \E t \in Triggers : SendText(t)
    \/ \E t \in Triggers : TriggerFinally(t)
    \/ \E i \in DOMAIN loops : LoopCheck(i)
    \/ \E i \in DOMAIN loops : LoopRead(i)
    \/ \E i \in DOMAIN loops : LoopFail(i)
    \/ \E i \in DOMAIN loops : LoopExit(i)

SpecRun == InitRun /\ [][NextRun]_vars

\* ---------------------------------------------------- Config objects
\* core/config.py: the class attribute DEFAULT_CONFIG and the instances made from
\* it. A nested dictionary is a function from its keys to values; the top-level
\* dictionary of an instance gives, for each section, a reference to the nested
\* dictionary of DEFAULT_CONFIG ("shared"), a dictionary of its own ("own") or
\* nothing ("absent").

\* the files load_config may read: some sections, each a dictionary of some keys
\* (not none) with a value each; <<>> is the empty dictionary
UserConfigs ==
    LET dicts == UNION {[ks -> Values] : ks \in (SUBSET Keys) \ {{}}}
    IN  UNION {[ss -> dicts] : ss \in (SUBSET Sections) \ {{}}}

\* `self.config = self.DEFAULT_CONFIG.copy()`: a new top-level dictionary whose
\* values are the nested dictionaries of the class attribute themselves
ShallowCopy ==
    [s \in Sections |-> IF s \in DOMAIN DefaultConfig
                        THEN [kind |-> "shared", dict |-> <<>>]
                        ELSE [kind |-> "absent", dict |-> <<>>]]

\* base[key] = value for every key of u on the dictionary d: the loop of
\* _deep_update on a nested dictionary, and the single assignment of set
Merge(d, u) == [x \in DOMAIN d \cup DOMAIN u |-> IF x \in DOMAIN u THEN u[x] ELSE d[x]]

\* get('s.k'): the value found by following the top-level dictionary top, the
\* nested dictionaries of the class attribute being defs; "None" = the default None
Get(defs, top, s, k) ==
    LET d == CASE top[s].kind = "absent" -> <<>>
               [] top[s].kind = "shared" -> defs[s]
               [] OTHER -> top[s].dict
    IN  IF k \in DOMAIN d THEN d[k] ELSE "None"

\* set('s.k', v) on the instance with top-level dictionary top: a missing section
\* is created in the instance, then the value is assigned in the dictionary the
\* section names
SetIn(defs, top, s, k, v) ==
    CASE top[s].kind = "absent" ->
            [defs |-> defs, top |-> [top EXCEPT ![s] = [kind |-> "own", dict |-> (k :> v)]]]
      [] top[s].kind = "shared" ->
            [defs |-> [defs EXCEPT ![s] = Merge(@, k :> v)], top |-> top]
      [] OTHER ->
            [defs |-> defs, top |-> [top EXCEPT ![s].dict = Merge(@, k :> v)]]

RECURSIVE DeepUpdate(_, _, _, _)
\* _deep_update(self.config, user) over the sections ss of user still to do: a
\* section the instance has is updated key by key in the dictionary it names, any
\* other is assigned
DeepUpdate(defs, top, user, ss) ==
    IF ss = {} THEN [defs |-> defs, top |-> top]
    ELSE LET s == CHOOSE x \in ss : TRUE
             u == user[s]
             r == CASE top[s].kind = "absent" ->
                         [defs |-> defs,
                          top |-> [top EXCEPT ![s] = [kind |-> "own", dict |-> u]]]
                    [] top[s].kind = "shared" ->
                         [defs |-> [defs EXCEPT ![s] = Merge(@, u)], top |-> top]
                    [] OTHER ->
                         [defs |-> defs, top |-> [top EXCEPT ![s].dict = Merge(@, u)]]
         IN  DeepUpdate(r.defs, r.top, user, ss \ {s})

\* Config() and Config(path): the defaults are copied, then a file found is loaded
ConfigNew(i) ==
    /\ ~config[i].born
    /\ \/ /\ config' = [config EXCEPT ![i] = [born |-> TRUE, top |-> ShallowCopy]]
          /\ UNCHANGED DEFAULT_CONFIG
       \/ \E user \in UserConfigs :
            LET r == DeepUpdate(DEFAULT_CONFIG, ShallowCopy, user, DOMAIN user)
            IN  /\ config' = [config EXCEPT ![i] = [born |-> TRUE, top |-> r.top]]
                /\ DEFAULT_CONFIG' = r.defs
    /\ UNCHANGED <<cfgVars, sink, presses, audioVars, svcVars, pc, localVars, text, quiet,
                   escaped, engVars, outVars, backend, callback, called, cli>>

\* config.set('s.k', v)
ConfigSet(i) ==
    /\ config[i].born
    /\ \E s \in Sections, k \in Keys, v \in Values :
         LET r == SetIn(DEFAULT_CONFIG, config[i].top, s, k, v)
         IN  /\ config' = [config EXCEPT ![i].top = r.top]
             /\ DEFAULT_CONFIG' = r.defs
    /\ UNCHANGED <<cfgVars, sink, presses, audioVars, svcVars, pc, localVars, text, quiet,
                   escaped, engVars, outVars, backend, callback, called, cli>>

\* config.load_config(path)
ConfigLoad(i) ==
    /\ config[i].born
    /\ \E user \in UserConfigs :
         LET r == DeepUpdate(DEFAULT_CONFIG, config[i].top, user, DOMAIN user)
         IN  /\ config' = [config EXCEPT ![i].top = r.top]
             /\ DEFAULT_CONFIG' = r.defs
    /\ UNCHANGED <<cfgVars, sink, presses, audioVars, svcVars, pc, localVars, text, quiet,
                   escaped, engVars, outVars, backend, callback, called, cli>>

NextConfig ==
    \/ \E i \in Instances : ConfigNew(i)
    \/ \E i \in Instances : ConfigSet(i)
    \/ \E i \in Instances : ConfigLoad(i)

\* no service is started: the state of the orchestrator stays as constructed
SpecConfig == Init /\ [][NextConfig]_vars

TypeOK ==
    /\ recording \in BOOLEAN /\ processing \in BOOLEAN /\ running \in BOOLEAN
    /\ record_thread \in {0} \cup DOMAIN loops
    /\ \A a \in Actors : buf[a] \in Int /\ buf[a] >= -1

\* ================================================================ claims

\* trigger callbacks that have passed the Busy check
Passed == {t \in Triggers : pc[t] \notin {"idle", "check"}}

\* no trigger callback holds the Busy flag
NoneInCycle == \A t \in Triggers : pc[t] \in {"idle", "check", "set"}

StartPcs == {"st_check", "st_set", "st_clear", "st_spawn"}
HarvestPcs == {"sr_check", "sr_clear", "sr_join"}

\* C1: of the trigger callbacks running concurrently at most one has passed the
\* Busy check; every other one is dropped at the check.
C1_SingleFlight == Cardinality(Passed) <= 1

\* C2: at every moment at most one call of engine.transcribe is in flight.
C2_OneTranscription == Cardinality({t \in Triggers : pc[t] = "transcribing"}) <= 1

\* C3: Busy is released on every exit path: the return of a callback that set
\* Busy leaves Busy false, whatever happened in its cycle, and Busy is never true
\* while no callback is inside a cycle.
C3_BusyReleased ==
    /\ [](NoneInCycle => ~processing)
    /\ [][\A t \in Triggers :
            (pc[t] = "finally" /\ pc'[t] = "idle") => ~processing']_vars

\* a callback whose start_recording raised is about to return, Busy still set
C3_Witness ==
    \E t \in Triggers :
        pc[t] = "finally" /\ exc[t] = "caught" /\ ~available /\ processing

\* C4: no exception of a trigger cycle leaves _on_trigger; the return of a cycle
\* that failed leaves the orchestrator's Running state and the registration as
\* they were and Busy clear, so that the next trigger is handled.
C4_NoEscape ==
    /\ [](~escaped /\ \A t \in Triggers : exc[t] # "raised")
    /\ [][\A t \in Triggers :
            (pc[t] = "finally" /\ pc'[t] = "idle" /\ exc[t] # "none") =>
                /\ running' = running
                /\ active' = active
                /\ ~processing'
                /\ ~escaped']_vars

\* a cycle of a Running orchestrator failed after a session had been started
C4_Witness ==
    \E t \in Triggers :
        pc[t] = "finally" /\ exc[t] = "caught" /\ available /\ running

\* C5: the trigger that follows a session's self-stop at the cap, with no other
\* callback and no stop() under way, takes the harvest branch and leaves the
\* captured chunks in place.
C5_CapHarvest ==
    [][\A t \in Triggers :
         ( /\ pc[t] = "toggle" /\ pc'[t] # "toggle"
           /\ capped /\ audio_data # <<>>
           /\ pc[Main] = "idle"
           /\ \A u \in Triggers \ {t} : pc[u] = "idle" )
         => (pc'[t] = "sr_check" /\ audio_data' = audio_data)]_vars

\* C6: a session of 16000 Hz and 1 s that stopped itself at the cap returns a
\* buffer of exactly 16000 samples to the stop_recording() that follows.
C6_CapScenario ==
    ( /\ sample_rate = 16000 /\ max_duration = 10
      /\ capped
      /\ pc[Client] = "ret" /\ buf[Client] >= 0 /\ exc[Client] = "none" )
    => buf[Client] = 16000

\* C7: a buffer returned by stop_recording() never has more than
\* sample_rate * max_duration samples.
C7_BufferBound == \A a \in Actors : buf[a] <= MaxSamples

\* C8: a trigger that passed the Busy check calls start_recording when the session
\* is Idle and stop_recording when it is Recording; the start branch ends without
\* transcribe or send; the stop branch calls transcribe, once, exactly when the
\* harvested buffer is non-empty; send follows a transcription only.
C8_Toggle ==
    [][\A t \in Triggers :
         /\ (pc[t] = "toggle" /\ pc'[t] # "toggle") =>
               pc'[t] = (IF recording THEN "sr_check" ELSE "st_check")
         /\ (pc[t] \in StartPcs /\ pc'[t] # pc[t]) =>
               pc'[t] \in StartPcs \cup {"finally"}
         /\ (pc[t] \in HarvestPcs /\ pc'[t] \notin HarvestPcs) =>
               /\ pc'[t] \in {"transcribing", "finally"}
               /\ pc'[t] = "transcribing" <=> buf'[t] > 0
         /\ (pc[t] = "transcribing" /\ pc'[t] # "transcribing") =>
               pc'[t] \in {"send", "finally"}
         /\ (pc[t] = "send" /\ pc'[t] # "send") => pc'[t] = "finally"
         /\ (pc[t] = "finally" /\ pc'[t] # "finally") => pc'[t] = "idle"]_vars

\* a trigger stopped a recording session and is transcribing its non-empty buffer
C8_Witness ==
    \E t \in Triggers : pc[t] = "transcribing" /\ buf[t] > 0 /\ ~recording

\* C9: a trigger that finds Busy set returns at once: it touches neither the
\* session nor the backend nor the sink, leaves Busy set, and nothing runs on its
\* behalf later: a callback leaves the idle position only by a new firing.
C9_BusyDrop ==
    [][\A t \in Triggers :
         /\ (pc[t] = "check" /\ processing /\ pc'[t] # "check") =>
               /\ pc'[t] = "idle"
               /\ processing'
               /\ UNCHANGED <<audioVars, running, ready, active, listeners, localVars, text>>
         /\ (pc[t] = "idle" /\ pc'[t] # "idle") =>
               (active /\ pc'[t] = "check")]_vars

\* a trigger is at the Busy check while another callback's transcription is in flight
C9_Witness ==
    \E t, u \in Triggers :
        pc[t] = "check" /\ processing /\ pc[u] = "transcribing"

C13_ReadyBeforeTranscribe ==
    /\ \A t \in Triggers : pc[t] = "transcribing" => ready
    /\ (active \/ pc[Main] = "start_reg") => ready
    /\ (\E t \in Triggers : pc[t] # "idle") => ready

\* a callback of a Running orchestrator is inside engine.transcribe
C13_Witness ==
    \E t \in Triggers : pc[t] = "transcribing" /\ ready /\ running /\ active

\* C14: send_text is called only with a text that has at least one character that
\* is not whitespace; an empty or whitespace-only result of transcribe ends the
\* cycle without a send.
C14_NoEmptySend ==
    \A t \in Triggers :
        /\ pc[t] = "send" =>
              (text[t] # <<>> /\ \E i \in 1..Len(text[t]) : ~IsSpace(text[t][i]))
        /\ pc[t] # "send" => text[t] = <<>>

\* a callback is about to send a text that has leading whitespace
C14_Witness ==
    \E t \in Triggers : pc[t] = "send" /\ Len(text[t]) > 1 /\ IsSpace(text[t][1])

\* C15: the return of send_text, false included, changes nothing of the
\* orchestrator or the session: the service stays Running, the session stays as
\* the harvest left it, the cycle ends and clears Busy like a successful one, and
\* the text is not sent again: send_text is reached from transcribe only and
\* transcribe from a harvest only.
C15_FailedSend ==
    [][\A t \in Triggers :
         /\ (pc[t] = "send" /\ pc'[t] # "send") =>
               /\ pc'[t] = "finally"
               /\ text'[t] = <<>>
               /\ UNCHANGED <<audioVars, svcVars, buf>>
         /\ (pc[t] # "send" /\ pc'[t] = "send") => pc[t] = "transcribing"
         /\ (pc[t] # "transcribing" /\ pc'[t] = "transcribing") => pc[t] \in HarvestPcs
         /\ (pc[t] = "finally" /\ pc'[t] # "finally") =>
               (pc'[t] = "idle" /\ ~processing')]_vars

\* a callback of a Running orchestrator is inside send_text, the session Idle
C15_Witness ==
    \E t \in Triggers : pc[t] = "send" /\ running /\ ~recording /\ processing

\* C16: round trip with a ready DummyEngine and a healthy device: when the first
\* press has been handled a session has been started and nothing was sent; when the
\* second press has been handled and it harvested a 2-second buffer (32000
\* samples), the sink has received exactly one text, the non-empty medium-length
\* answer.
C16_RoundTrip ==
    /\ (presses = 1 /\ pc[RoundTrigger] = "idle") =>
          (sink = <<>> /\ record_thread # 0)
    /\ ( /\ presses = 2 /\ pc[RoundTrigger] = "idle"
         /\ ~recording /\ SumSeq(audio_data) = 32000 ) =>
          (sink = <<MediumText>> /\ HasText(MediumText))

\* the second press has harvested 2 seconds of audio and its cycle has ended
C16_Witness ==
    /\ presses = 2 /\ pc[RoundTrigger] = "idle"
    /\ ~recording /\ SumSeq(audio_data) = 32000 /\ Len(sink) = 1

\* C17: the Idle/Recording state of the session is changed by start_recording and
\* stop_recording calls only, never by a step of a capture thread.
C17_OwnerOnly ==
    [][recording' # recording => loops' = loops]_vars

\* C18: start_recording() on a session that is Recording changes nothing of the
\* session (state, chunks, capture threads) and ends with an error reported to its
\* caller.
C18_AlreadyRecording ==
    [][(pc[Client] = "st_check" /\ available /\ recording /\ pc'[Client] # "st_check")
         => /\ pc'[Client] = "ret"
            /\ UNCHANGED audioVars
            /\ exc'[Client] # "none"]_vars

\* C19: stop_recording() always returns to its caller; it does not wait for the
\* capture thread beyond the join timeout: when it returns a buffer the session is
\* Idle, the capture threads are left as they are, alive or not, and the buffer
\* is the chunks collected so far.
C19_StopTerminates ==
    /\ (pc[Client] \in HarvestPcs) ~> (pc[Client] = "ret")
    /\ [][(pc[Client] = "sr_join" /\ pc'[Client] = "ret" /\ exc'[Client] = "none")
            => /\ ~recording'
               /\ loops' = loops
               /\ buf'[Client] = SumSeq(audio_data)
               /\ audio_data' = audio_data]_vars

\* stop_recording() has returned chunks while its capture thread is still alive
C19_Witness ==
    /\ pc[Client] = "ret" /\ buf[Client] > 0 /\ ~recording
    /\ record_thread # 0 /\ loops[record_thread].pc = "read"

\* C20: a device failure inside the capture loop ends the capture thread, sets
\* the session Idle and reaches no caller; the session stays Idle until the next
\* start_recording(), and stop_recording() on the Idle session returns an empty
\* buffer without raising.
C20_DeviceFailure ==
    [][ /\ (\E i \in DOMAIN loops : loops[i].pc = "read" /\ loops'[i].pc = "off") =>
              (~recording' /\ UNCHANGED <<pc, buf, exc, audio_data>>)
        /\ (~recording /\ recording') => pc[Client] = "st_set"
        /\ (pc[Client] = "sr_check" /\ ~recording /\ pc'[Client] # "sr_check") =>
              (pc'[Client] = "ret" /\ buf'[Client] = 0 /\ exc'[Client] = "none") ]_vars

\* the device failed before the cap: the session is Idle again although its user,
\* back from start_recording(), has not stopped it
C20_Witness ==
    /\ pc[Client] = "ret" /\ buf[Client] = -1 /\ exc[Client] = "none"
    /\ record_thread # 0 /\ ~recording /\ ~capped

\* C21: stop_recording() called on a session that is not recording returns the
\* empty buffer, raises nothing and leaves every attribute of the session as it
\* was, so the session stays idle.
C21_IdleStop ==
    [][(pc[Client] = "sr_check" /\ ~recording /\ pc'[Client] # "sr_check")
        => /\ pc'[Client] = "ret"
           /\ buf'[Client] = 0
           /\ exc'[Client] = "none"
           /\ ~recording'
           /\ UNCHANGED audioVars]_vars

\* stop_recording() has returned the empty buffer on a session that was never
\* started
C21_Witness ==
    /\ pc[Client] = "ret"
    /\ buf[Client] = 0
    /\ exc[Client] = "none"
    /\ record_thread = 0
    /\ ~recording

\* C22: an engine is constructed only for a requested type that is registered; a
\* type create_engine does not know makes the construction fail instead of
\* putting another engine in its place.
C22_UnknownTypeFails == engine_type # "none" => Lower(model_type) \in Registered

\* a transcribe call of the engine used on its own has returned or raised
TranscribeDone == pc[Client] = "ret" /\ audio # <<>>

C24_FailedLoad ==
    [][/\ (pc[Client] = "load" /\ pc'[Client] = "ret")
            => \/ exc'[Client] = "none" /\ ready'
               \/ exc'[Client] = "raised" /\ ready' = ready /\ model' = model
       /\ (pc[Client] = "idle" /\ engine_type = "none" /\ pc'[Client] = "ret")
            => exc'[Client] = "raised" /\ engine_type' = "none" /\ ~ready']_vars

\* load_model has raised on a FasterWhisperEngine, which is still not ready
C24_Witness ==
    /\ pc[Client] = "ret"
    /\ audio = <<>>
    /\ engine_type = "faster-whisper"
    /\ exc[Client] = "raised"
    /\ ~ready
    /\ ~model

\* C25: the array handed to the inference model never has more than 160000
\* samples, whatever the length and the channels of the buffer given to transcribe.
C25_Clamped == inference.samples <= MaxInferenceSamples

\* C26: when the inference model fails for lack of memory, transcribe returns the
\* empty text and raises nothing, so that the service has nothing to send.
C26_MemoryFailureEmpty ==
    (TranscribeDone /\ inference.outcome \in MemoryFailures)
        => /\ exc[Client] = "none"
           /\ text[Client] = <<>>
           /\ ~HasText(text[Client])

SendDone == pc[Client] = "ret" /\ handlers # <<>>

\* C28: send_text("") returns true and attempts no keystroke and no clipboard
\* operation, on a KeyboardHandler, a ClipboardHandler and a CompositeHandler,
\* whether or not the handler and the handlers it holds are available.
C28_EmptySendNoop ==
    (pc[Client] = "ret" /\ sink_kind \in {"keyboard", "clipboard", "composite"}
        /\ text[Client] = <<>>)
        => result = "true" /\ os_calls = <<>>

\* the held handlers that are available
AvailableHeld == {i \in DOMAIN handlers : handlers[i].available}

\* C29: CompositeHandler.send_text calls send_text of every held handler that is
\* available, in the order held and of no other, whatever the calls return; it
\* returns true exactly when one of those calls returned true; is_available() is
\* true exactly when a held handler is available.
C29_AtLeastOne ==
    /\ sink_kind = "composite" => (AnyAvailable(handlers) <=> AvailableHeld # {})
    /\ (pc[Client] = "ret" /\ sink_kind = "composite")
        => /\ exc[Client] = "none"
           /\ {invoked[k].index : k \in DOMAIN invoked} = AvailableHeld
           /\ \A j, k \in DOMAIN invoked : j < k => invoked[j].index < invoked[k].index
           /\ result = "true" <=> \E k \in DOMAIN invoked : invoked[k].returned = "true"
           /\ result = "false" <=> \A k \in DOMAIN invoked : invoked[k].returned # "true"

\* a composite of two available handlers has returned true although the second
\* handler failed after the first succeeded
C29_Witness ==
    /\ pc[Client] = "ret"
    /\ sink_kind = "composite"
    /\ Len(invoked) = 2
    /\ invoked[1].returned = "true"
    /\ invoked[2].returned = "false"
    /\ result = "true"

\* C30: send_text of a KeyboardHandler and of a ClipboardHandler never raises; when
\* the keystroke or clipboard operation fails, it returns false.
C30_FailureIsFalse ==
    (SendDone /\ sink_kind \in HandlerKinds)
        => /\ exc[Client] = "none"
           /\ result \in {"true", "false"}
           /\ \A k \in DOMAIN os_calls : ~os_calls[k].ok => result = "false"

\* the clipboard operation of an available ClipboardHandler has failed and
\* send_text has returned false
C30_Witness ==
    /\ SendDone
    /\ sink_kind = "clipboard"
    /\ Len(os_calls) = 1
    /\ ~os_calls[1].ok
    /\ result = "false"
    /\ exc[Client] = "none"

\* C31: the trigger source has at most one registration, and start(callback) on an
\* active source is a no-op: it takes the warning branch, keeps the first callback,
\* adds no registration or listener, raises nothing and leaves is_active() true
C31_StartWhileActive ==
    /\ [](listeners <= 1)
    /\ [][/\ (pc[Client] = "idle" /\ pc'[Client] \in {"ret", "hk_warn", "hk_register"} /\ active)
             => /\ pc'[Client] = "hk_warn"
                /\ callback' = callback /\ listeners' = listeners /\ active'
                /\ exc'[Client] = "none"
          /\ (pc[Client] = "hk_warn" /\ pc'[Client] # "hk_warn")
             => /\ pc'[Client] = "ret"
                /\ callback' = callback /\ listeners' = listeners /\ active' = active
                /\ exc'[Client] = "none"]_vars

\* start() was called on an active source with one registration, after a callback
\* had been invoked
C31_Witness ==
    /\ pc[Client] = "hk_warn"
    /\ active /\ listeners = 1 /\ callback = "cb1"
    /\ called # <<>>

\* C32: after stop() returns the source is not active, holds no callback and has no
\* registration; a stop() on a source that is not active changes nothing; stop()
\* never raises; and a key event invokes a callback only while one is held, so an
\* event handled after stop() invokes nothing
C32_StopIdempotent ==
    [][/\ (pc[Client] = "hk_stop" /\ pc'[Client] # "hk_stop")
          => /\ pc'[Client] = "ret" /\ exc'[Client] = "none"
             /\ ~active'
             /\ active => (callback' = "none" /\ listeners' = 0)
             /\ ~active => (callback' = callback /\ listeners' = listeners)
       /\ called' # called => (callback # "none" /\ called' = Append(called, callback))
       /\ (\E t \in Triggers : pc[t] # "idle" /\ pc'[t] = "idle" /\ callback = "none")
          => called' = called]_vars

\* a second stop() is under way on a stopped source that had invoked its callback,
\* while a key event delivered earlier is still to be handled
C32_Witness ==
    /\ pc[Client] = "hk_stop"
    /\ ~active /\ callback = "none" /\ listeners = 0
    /\ called # <<>>
    /\ \E t \in Triggers : pc[t] \in {"hk_pressed", "hk_call"}

\* C33: once start() has succeeded inside run(), leaving the loop calls stop(), and
\* when the process then ends the trigger is unregistered, the session is not
\* recording and the exit code is 0; a failure while the components are constructed
\* or in start() ends the process with exit code 1
C33_RunShutdown ==
    [][/\ (cli = "loop" /\ cli' # "loop") => (cli' = "stop" /\ pc'[Main] = "stop")
       /\ (cli = "stop" /\ cli' \in {"exit0", "exit1"}) => (cli' = "exit0" /\ ~active' /\ ~recording')
       /\ (cli \in {"init", "start"} /\ cli' \in {"exit0", "exit1"}) => cli' = "exit1"
       /\ (cli = "start" /\ pc[Main] = "ret" /\ cli' # cli) => cli' = "exit1"]_vars

\* C36: once stop() has returned (the orchestrator is not running and the main
\* thread is in no call) the session is not recording and does not become
\* recording, and no call of transcribe or of send_text is made, also when a trigger
\* callback was executing while stop() ran
C36_StopIsFinal ==
    /\ []((~running /\ pc[Main] = "idle") => ~recording)
    /\ [][(~running /\ pc[Main] = "idle" /\ ~running' /\ pc'[Main] = "idle")
            => \A t \in Triggers :
                 /\ ~(pc[t] = "transcribing" /\ pc'[t] # "transcribing")
                 /\ ~(pc[t] = "send" /\ pc'[t] # "send")]_vars

\* C34: transcribe on a ready WhisperEngine or FasterWhisperEngine never raises,
\* whatever the buffer, and a call whose inference failed returns the empty text
C34_FailureIsEmpty ==
    (TranscribeDone /\ engine_type \in {"whisper", "faster-whisper"} /\ ready)
        => /\ exc[Client] = "none"
           /\ inference.outcome \notin {"none", "ok"} => text[Client] = <<>>

\* C35: KeyboardHandler.send_text attempts no keystroke for a text that is empty,
\* None (the same falsy value here) or made of whitespace only
C35_BlankNotTyped ==
    (pc[Client] = "ret" /\ sink_kind = "keyboard" /\ Strip(text[Client]) = <<>>)
        => os_calls = <<>>

\* C37: a capture loop is the only writer of the chunk list it appends to: at each
\* append the list holds exactly the samples that loop has read, so no loop left
\* behind by an earlier stop_recording() and no second loop writes into it
C37_SingleWriter ==
    [][\A i \in DOMAIN loops :
         (loops[i].pc = "read" /\ audio_data' # audio_data)
            => SumSeq(audio_data) = loops[i].n]_vars

\* C38: the chunk list changes only by start_recording() emptying it and by the
\* session's capture loop appending the chunk it has just read at the end, the list
\* holding exactly what that loop has read; and the stop_recording() that ends a
\* session, stopped by the caller or by the cap, returns the concatenation of the list
C38_BufferIsSession ==
    [][/\ audio_data' # audio_data
          => \/ audio_data' = <<>> /\ \E a \in Actors : pc[a] = "st_clear"
             \/ \E i \in DOMAIN loops :
                  /\ loops[i].pc = "read"
                  /\ audio_data' = Append(audio_data, ChunkSize)
                  /\ SumSeq(audio_data) = loops[i].n
       /\ \A a \in Actors :
            /\ (pc[a] = "sr_join" /\ pc'[a] # "sr_join" /\ exc'[a] = "none")
                  => buf'[a] = SumSeq(audio_data)
            /\ (pc[a] = "sr_check" /\ pc'[a] \notin HarvestPcs /\ capped)
                  => buf'[a] = SumSeq(audio_data)]_vars

\* C39: whenever a start() or stop() of the main thread has returned or raised,
\* is_running() equals is_active() of the trigger source; and every start() that
\* succeeds, the first or one after a stop(), leaves exactly one registration
C39_Lifecycle ==
    /\ [](pc[Main] \in {"idle", "ret"} => (running <=> active))
    /\ [][(pc[Main] = "start_reg" /\ pc'[Main] = "idle")
            => (running' /\ active' /\ listeners' = 1)]_vars

\* C40: a set() or load_config() on one Config instance, or its construction, leaves
\* the value of every get() on every other instance as it was, and a Config
\* constructed with no file always starts from the defaults of the class body
C40_Independent ==
    /\ [](\A s \in Sections, k \in Keys :
            Get(DEFAULT_CONFIG, ShallowCopy, s, k) = Get(DefaultConfig, ShallowCopy, s, k))
    /\ [][\E i \in Instances : \A j \in Instances \ {i} :
            config[j].born
               => /\ config'[j].born
                  /\ \A s \in Sections, k \in Keys :
                       Get(DEFAULT_CONFIG', config'[j].top, s, k)
                          = Get(DEFAULT_CONFIG, config[j].top, s, k)]_vars

====
